---- MODULE Spec2Model ----
(***************************************************************************)
(* A model of the chunked sandbox world of main.js: the seeded per-chunk   *)
(* generator, the chunk store and world accessor, chunk streaming, the     *)
(* fixed-step physics integrator, and mining.                              *)
(*                                                                         *)
(* Numbers.  32-bit words (Math.imul, ^, >>>, <<) are pairs <<hi, lo>> of  *)
(* 16-bit halves, so that every intermediate value fits the checker's      *)
(* integers; x ^ y is computed nibble by nibble.  A sample rng() in [0,1)  *)
(* is kept as its 32-bit numerator u (rng() = u / 2^32), and an expression *)
(* floor(k * rng()) is computed exactly as floor(k * u / 2^32).            *)
(* Positions are fixed-point, in units of 1/600 tile, which represents     *)
(* exactly every quantity the integrator adds: 0.01 (6), vx*dt = 0.1 (60), *)
(* vy*dt with vy a multiple of 0.5 (5 per half unit of vy), w = 0.9 (540)  *)
(* and h = 1.8 (1080).  The arithmetic is that of the reals; IEEE rounding *)
(* is not modelled.                                                        *)
(***************************************************************************)
EXTENDS Integers, Sequences, FiniteSets, TLC

(* ------------- state ------------- *)
VARIABLES
  SEED,         \* CONFIG.SEED
  chunks,       \* the Map chunks: from keys to chunks
  canvas,       \* [width, height] of the canvas, in pixels
  player,       \* [x, y, vx, vy, grounded, inventory]
  keys,         \* the keys k with keys[k] true
  mouse,        \* [x, y, down], x and y in canvas pixels
  saveTimeout,  \* [id, pending]: the timer scheduleWorldSave set last (id 0: none
                \* yet) and whether it is still to fire
  requests,     \* the bodies of the save requests in flight
  localWorld,   \* localStorage[WORLD_LOCAL_KEY]: <<>> or <<payload>>
  pc,           \* "load" until init() has run, then "run"
  generated,    \* history: how often generateChunk was called for each key
  written,      \* history: the tile of the last setTile at each world cell
  mining,       \* history: what the last tickMining with the button down did
  stepped,      \* history: what the last gameStep did
  ticks,        \* history: the gameSteps counted against MaxTicks
  gen,          \* a call of generateChunk followed stage by stage:
                \* [stage, cx, cy, g, indices]
  timing        \* the timers of the save, followed in time: [timers, auto, quiet,
                \* unsaved]

(* ------------- CONFIG ------------- *)
TILE_SIZE == 12
CHUNK_SIZE == 32
VISIBLE_RANGE == 2

(* ------------- 32-bit words ------------- *)
H16 == 256 * 256

\* x ^ y for two nibbles: bit k is the sum of the operands' bits k, modulo 2
XorNibble ==
  [x \in 0..15, y \in 0..15 |->
     ((x + y) % 2)
     + 2 * (((x \div 2) + (y \div 2)) % 2)
     + 4 * (((x \div 4) + (y \div 4)) % 2)
     + 8 * (((x \div 8) + (y \div 8)) % 2)]

\* the 16-bit halves, and the 32-bit words
Half == 0..(H16 - 1)
Word == Half \X Half

\* x ^ y for two halves of k nibbles
RECURSIVE xorNibbles(_, _, _)
xorNibbles(x, y, k) ==
  IF k = 0 THEN 0
  ELSE XorNibble[x % 16, y % 16] + 16 * xorNibbles(x \div 16, y \div 16, k - 1)

Xor16[x \in Half, y \in Half] == xorNibbles(x, y, 4)

\* a ^ b
xor32[a \in Word, b \in Word] == <<Xor16[a[1], b[1]], Xor16[a[2], b[2]]>>

\* (a + b) mod 2^32
add32[a \in Word, b \in Word] ==
  <<(a[1] + b[1] + ((a[2] + b[2]) \div H16)) % H16, (a[2] + b[2]) % H16>>

\* the low and the high 16 bits of the product of two 16-bit numbers x and y,
\* from p = x * (y % 256) and q = x * (y \div 256)
mulParts(p, q) == [lo |-> (p + (q % 256) * 256) % H16,
                   hi |-> ((p + (q % 256) * 256) \div H16) + (q \div 256)]
Mul16[x \in Half, y \in Half] == mulParts(x * (y % 256), x * (y \div 256))

\* Math.imul(a, b): the low 32 bits of a * b
imulParts(ll, hl, lh) == <<(ll.hi + hl.lo + lh.lo) % H16, ll.lo>>
imul[a \in Word, b \in Word] ==
  imulParts(Mul16[a[2], b[2]], Mul16[a[1], b[2]], Mul16[a[2], b[1]])

\* a >>> k for 0 < k < 16, given p = 2^k
shr32(a, p) == <<a[1] \div p, (a[1] % p) * (H16 \div p) + (a[2] \div p)>>

\* a >>> 16
shr16(a) == <<0, a[1]>>

\* (a << 13) | (a >>> 19): the two operands share no bit, so | is +
rotl13(a) ==
  <<(a[1] % 8) * 8192 + (a[2] \div 8), (a[2] % 8) * 8192 + (a[1] \div 8)>>

\* a | 1 and a | 61 (61 = 111101b: every low bit but bit 1)
or1(a)  == <<a[1], a[2] + 1 - (a[2] % 2)>>
or61(a) == <<a[1], a[2] - (a[2] % 64) + 61 + 2 * ((a[2] \div 2) % 2)>>

(* ------------- UTIL: seeded RNG per-chunk ------------- *)
\* the character codes of the decimal text of n
RECURSIVE Digits(_)
Digits(n) == IF n < 10 THEN <<48 + n>> ELSE Append(Digits(n \div 10), 48 + (n % 10))

NumStr(n) == IF n < 0 THEN <<45>> \o Digits(-n) ELSE Digits(n)

\* lines 27-30, the loop of xmur3 over the characters of str; s = [i, h] is
\* the loop's state
RECURSIVE xmur3Loop(_, _)
xmur3Loop(str, s) ==
  IF s.i > Len(str) THEN s.h
  ELSE xmur3Loop(str, [i |-> s.i + 1,
         h |-> rotl13(imul[xor32[s.h, <<0, str[s.i]>>], <<52382, 11601>>])])  \* 3432918353

\* lines 31-35, the statements of the closure xmur3 returns
xmur3Mix1(h) == imul[xor32[h, shr16(h)], <<34283, 51819>>]              \* 2246822507
xmur3Mix2(h) == imul[xor32[h, shr32(h, 8192)], <<49842, 44597>>]        \* 3266489909
xmur3Mix3(h) == xor32[h, shr16(h)]

\* xmur3(str)(): the first value the hash closure returns
xmur3(str) ==
  xmur3Mix3(xmur3Mix2(xmur3Mix1(
    xmur3Loop(str, [i |-> 1, h |-> xor32[<<27145, 58983>>, <<0, Len(str)>>]]))))  \* 1779033703

\* lines 39-42, the statements of the closure mulberry32 returns, after a1,
\* the new closure state
mulberryMix1(a1) == imul[xor32[a1, shr32(a1, 32768)], or1(a1)]
mulberryMix2(t) == xor32[t, add32[t, imul[xor32[t, shr32(t, 128)], or61(t)]]]
mulberryMix3(t) == xor32[t, shr32(t, 16384)]
mulberryOut(a1) == [a |-> a1, u |-> mulberryMix3(mulberryMix2(mulberryMix1(a1)))]

\* one call of the closure mulberry32 returns, from closure state a: the new
\* state, and the numerator u of the sample u / 4294967296
mulberry32(a) == mulberryOut(add32[a, <<27947, 31221>>])                 \* 0x6D2B79F5

\* The closure's state after n calls is its initial state plus n * 0x6D2B79F5
\* (line 39: a += 0x6D2B79F5 is the only assignment to it), so the sample of
\* call number n >= 1 of a generator created in state a0 is that of one call
\* from the state after n - 1 calls.
rngCall(a0, n) == mulberry32(add32[a0, imul[<<0, n - 1>>, <<27947, 31221>>]]).u

\* rngFor(seed, cx, cy): the initial state of the chunk's generator
rngFor(seed, cx, cy) ==
  xmur3(NumStr(seed) \o <<95>> \o NumStr(cx) \o <<95>> \o NumStr(cy))

\* floor(k * rng()) for a sample of numerator u and an integer 0 < k < 2^15
FloorMul(k, u) == (k * u[1] + ((k * u[2]) \div H16)) \div H16

(* ------------- TILE TYPES ------------- *)
TILES == [AIR |-> "air", GRASS |-> "grass", DIRT |-> "dirt", STONE |-> "stone",
          COAL |-> "coal", COPPER |-> "copper", WOOD |-> "wood", LEAVES |-> "leaves"]

Max(a, b) == IF a > b THEN a ELSE b
Min(a, b) == IF a < b THEN a ELSE b

(* ------------- WORLD: chunk generation ------------- *)
\* floor(4 * Math.sin(n / 30)) by its breakpoints: <<n, v>> says the value is v
\* from n up to the next breakpoint.  worldX/10 + cy/6 = (3*worldX + 5*cy)/30.
SinSteps == <<
  <<-202, -2>>, <<-196, -1>>, <<-188, 0>>, <<-180, 1>>, <<-172, 2>>, <<-163, 3>>,
  <<-119, 2>>, <<-109, 1>>, <<-101, 0>>, <<-94, -1>>, <<-86, -2>>, <<-78, -3>>,
  <<-68, -4>>, <<-25, -3>>, <<-15, -2>>, <<-7, -1>>, <<0, 0>>, <<8, 1>>, <<16, 2>>,
  <<26, 3>>, <<69, 2>>, <<79, 1>>, <<87, 0>>, <<95, -1>>, <<102, -2>>, <<110, -3>>,
  <<120, -4>>, <<164, -3>>, <<173, -2>>, <<181, -1>>, <<189, 0>>, <<197, 1>>,
  <<205, 2>>, <<214, 3>>, <<258, 2>>, <<268, 1>>, <<276, 0>>, <<283, -1>>,
  <<291, -2>>, <<299, -3>>, <<309, -4>>, <<352, -3>>, <<362, -2>>, <<370, -1>>,
  <<377, 0>>, <<385, 1>>, <<393, 2>>, <<403, 3>>, <<446, 2>>, <<456, 1>>,
  <<464, 0>>, <<472, -1>>, <<479, -2>>, <<487, -3>>, <<497, -4>>, <<541, -3>>,
  <<550, -2>>, <<558, -1>>, <<566, 0>>, <<574, 1>>, <<582, 2>>, <<591, 3>>,
  <<635, 2>>, <<645, 1>>, <<653, 0>>, <<660, -1>>, <<668, -2>>, <<676, -3>>,
  <<686, -4>>, <<729, -3>>, <<739, -2>>, <<747, -1>>, <<754, 0>>, <<762, 1>>,
  <<770, 2>>, <<780, 3>>, <<823, 2>>, <<833, 1>>, <<841, 0>>, <<849, -1>>,
  <<856, -2>>, <<864, -3>>, <<874, -4>> >>

stepAt(steps, n) ==
  steps[CHOOSE i \in 1..Len(steps) :
          steps[i][1] <= n /\ i < Len(steps) /\ n < steps[i + 1][1]][2]

Sin4(n) == stepAt(SinSteps, n)

\* the samples of calls n + 1 .. n + k of the generator created in state a0
rngCalls(a0, n, k) == SubSeq([j \in 1..k |-> rngCall(a0, n + j)], 1, k)

(* ------------- generateChunk ------------- *)
\* A tile grid is a sequence of CHUNK_SIZE rows of CHUNK_SIZE tiles: the
\* program's tiles[y][x] is tiles[y + 1][x + 1] here.  The generator's stages
\* pass on g = [a0, n, tiles]: the state a0 in which rngFor created the
\* generator, the number n of calls of rng() made so far, and the grid.
TileAt(tiles, x, y) == tiles[y + 1][x + 1]

\* a function on 1..CHUNK_SIZE as a sequence
AsRow(f) == SubSeq(f, 1, CHUNK_SIZE)

\* a column fill with a tile outside TILES: what C11_TileClosure rules out
columnTileSand(y, surfaceY) ==
  IF y < surfaceY THEN TILES.AIR
  ELSE IF y = surfaceY THEN TILES.GRASS
  ELSE IF y > surfaceY /\ y < surfaceY + 4 THEN "sand"
  ELSE TILES.STONE

\* a column fill whose STONE starts one row higher: what C20_SurfaceBounds
\* rules out
columnTileShallow(y, surfaceY) ==
  IF y < surfaceY THEN TILES.AIR
  ELSE IF y = surfaceY THEN TILES.GRASS
  ELSE IF y > surfaceY /\ y < surfaceY + 3 THEN TILES.DIRT
  ELSE TILES.STONE

\* a column fill with one more row of DIRT: what C19_Layering rules out
columnTileDeep(y, surfaceY) ==
  IF y < surfaceY THEN TILES.AIR
  ELSE IF y = surfaceY THEN TILES.GRASS
  ELSE IF y > surfaceY /\ y <= surfaceY + 4 THEN TILES.DIRT
  ELSE TILES.STONE

\* lines 86-91: the tile of row y in a column whose surface row is surfaceY
columnTile(y, surfaceY) ==
  IF y < surfaceY THEN TILES.AIR
  ELSE IF y = surfaceY THEN TILES.GRASS
  ELSE IF y > surfaceY /\ y < surfaceY + 4 THEN TILES.DIRT
  ELSE TILES.STONE

\* lines 81-84: the surface row of column x, from the sample of numerator u
surfaceRow(cx, cy, x, u) ==
  LET worldX == cx * CHUNK_SIZE + x
      base   == (CHUNK_SIZE \div 2) + Sin4(3 * worldX + 5 * cy) + (FloorMul(3, u) - 1)
  IN  Max(4, Min(CHUNK_SIZE - 6, base))

\* lines 79-84: the surface rows of the columns; column x draws call x + 1
surfaceRows(cx, cy, a0) ==
  AsRow([c \in 1..CHUNK_SIZE |-> surfaceRow(cx, cy, c - 1, rngCall(a0, c))])

\* lines 75-92
heightmap(cx, cy, a0) ==
  [a0 |-> a0, n |-> CHUNK_SIZE,
   tiles |-> LET surf == surfaceRows(cx, cy, a0)
             IN  AsRow([r \in 1..CHUNK_SIZE |->
                   AsRow([c \in 1..CHUNK_SIZE |-> columnTile(r - 1, surf[c])])])]

\* line 107: Math.hypot(ox, oy) <= r + 0.2, for -r <= ox, oy <= r
inDisc(ox, oy, r) ==
  /\ -r <= ox /\ ox <= r /\ -r <= oy /\ oy <= r
  /\ 25 * (ox * ox + oy * oy) <= (5 * r + 1) * (5 * r + 1)

\* lines 103-110: the disc of radius r around (tx, ty), clipped to the chunk
carveDisc(tiles, tx, ty, r) ==
  AsRow([row \in 1..CHUNK_SIZE |->
    IF (row - 1) - ty > r \/ ty - (row - 1) > r THEN tiles[row]
    ELSE AsRow([c \in 1..CHUNK_SIZE |->
           IF inDisc((c - 1) - tx, (row - 1) - ty, r) THEN TILES.AIR ELSE tiles[row][c]])])

\* lines 102-114: iteration s.i of the loop over i; s = [i, tx, ty, tiles] is
\* the loop's state and u holds the samples the loop draws, three per iteration
tunnelStep(s, u) ==
  [i  |-> s.i + 1,
   tx |-> Max(1, Min(CHUNK_SIZE - 2, s.tx + (FloorMul(3, u[3 * s.i + 2]) - 1))),
   ty |-> Max(2, Min(CHUNK_SIZE - 3, s.ty + (FloorMul(3, u[3 * s.i + 3]) - 1))),
   tiles |-> carveDisc(s.tiles, s.tx, s.ty, 1 + (FloorMul(22, u[3 * s.i + 1]) \div 10))]

\* lines 101-115: the iterations s.i .. length - 1 of the loop, in order; they
\* are evaluated half by half, which keeps the evaluation shallow
RECURSIVE tunnelWalk(_, _, _)
tunnelWalk(s, u, length) ==
  IF s.i >= length THEN s
  ELSE IF s.i + 1 = length THEN tunnelStep(s, u)
  ELSE tunnelWalk(tunnelWalk(s, u, (s.i + length) \div 2), u, length)

\* lines 118-125: AIR in column tx from row ty up to and including the first
\* GRASS met, or up to row 0 when none is met
drillUp(tiles, tx, ty) ==
  LET grass == {y \in 0..ty : TileAt(tiles, tx, y) = TILES.GRASS}
      stop  == IF grass = {} THEN 0 ELSE CHOOSE y \in grass : \A z \in grass : z <= y
  IN  AsRow([row \in 1..CHUNK_SIZE |->
        IF row - 1 >= stop /\ row - 1 <= ty
        THEN [tiles[row] EXCEPT ![tx + 1] = TILES.AIR]
        ELSE tiles[row]])

\* lines 116-125: the end of a tunnel, from the state w the loop over i left
\* and the sample u of line 117
tunnelEnd(w, u) ==
  IF FloorMul(100, u) < 12 THEN drillUp(w.tiles, w.tx, w.ty) ELSE w.tiles  \* rng() < 0.12

\* lines 101-125: the loop over i from its first state s, and the end; u holds
\* the samples drawn after those of tx, ty and length
tunnelFrom(s, u, length) == tunnelEnd(tunnelWalk(s, u, length), u[Len(u)])

\* lines 98-99: the first state of the loop over i, from the samples of
\* numerators utx and uty
tunnelStart(tiles, utx, uty) ==
  [i |-> 0, tx |-> FloorMul(CHUNK_SIZE, utx),
   \* floor(size*0.4 + rng()*size*0.5)
   ty |-> (4 * CHUNK_SIZE + FloorMul(5 * CHUNK_SIZE, uty)) \div 10,
   tiles |-> tiles]

\* lines 98-126: one tunnel.  It draws tx, ty and length (the samples of
\* numerators utx, uty and ulen), then three samples for each of the length
\* iterations, then the sample of line 117.
tunnelOf(g, utx, uty, length) ==
  [a0 |-> g.a0, n |-> g.n + 3 + (3 * length + 1),
   tiles |-> tunnelFrom(tunnelStart(g.tiles, utx, uty),
                        rngCalls(g.a0, g.n + 3, 3 * length + 1), length)]

tunnelDraws(g, u) == tunnelOf(g, u[1], u[2], 10 + FloorMul(30, u[3]))

tunnel(g) == tunnelDraws(g, rngCalls(g.a0, g.n, 3))

\* lines 97-127, the loop over t
RECURSIVE tunnelsFrom(_, _, _)
tunnelsFrom(g, t, tunnels) ==
  IF t = tunnels THEN g ELSE tunnelsFrom(tunnel(g), t + 1, tunnels)

\* lines 95-128
caves(g) ==
  IF FloorMul(100, rngCall(g.a0, g.n + 1)) < 65                        \* rng() < 0.65
  THEN tunnelsFrom([a0 |-> g.a0, n |-> g.n + 2, tiles |-> g.tiles], 0,
                   1 + FloorMul(2, rngCall(g.a0, g.n + 2)))
  ELSE [a0 |-> g.a0, n |-> g.n + 1, tiles |-> g.tiles]

\* lines 134-136: what a STONE tile becomes, from the sample of numerator u
oreTile(u) ==
  IF FloorMul(100, u) < 2 THEN TILES.COAL                              \* r < 0.02
  ELSE IF FloorMul(1000, u) < 7 THEN TILES.COPPER                      \* r < 0.007
  ELSE TILES.STONE

\* the STONE tiles of column x in rows 0 .. y
stonesAbove(tiles, x, y) == Cardinality({q \in 0..y : TileAt(tiles, x, q) = TILES.STONE})

\* the STONE tiles of columns 0 .. x - 1
stonesLeft(tiles, x) ==
  Cardinality({p \in (0..(x - 1)) \X (0..(CHUNK_SIZE - 1)) :
                 TileAt(tiles, p[1], p[2]) = TILES.STONE})

\* lines 131-139: the loops (x outer, y inner) draw one sample for each STONE
\* tile, so the tile at (x, y) draws the call whose number, after n, is the
\* count of the STONE tiles the loops visit up to and including it
oresWith(g, u, before) ==
  [a0 |-> g.a0, n |-> g.n + Len(u),
   tiles |-> AsRow([r \in 1..CHUNK_SIZE |->
               AsRow([c \in 1..CHUNK_SIZE |->
                 IF g.tiles[r][c] = TILES.STONE
                 THEN oreTile(u[before[c] + stonesAbove(g.tiles, c - 1, r - 1)])
                 ELSE g.tiles[r][c]])])]

ores(g) ==
  oresWith(g, rngCalls(g.a0, g.n, stonesLeft(g.tiles, CHUNK_SIZE)),
           AsRow([c \in 1..CHUNK_SIZE |-> stonesLeft(g.tiles, c - 1)]))

\* lines 145-146: the first row y < size-1 of column x holding GRASS, or -1
firstGrass(tiles, x) ==
  LET ys == {y \in 0..(CHUNK_SIZE - 2) : TileAt(tiles, x, y) = TILES.GRASS}
  IN  IF ys = {} THEN -1 ELSE CHOOSE y \in ys : \A z \in ys : y <= z

\* lines 148-163: the trunk above (x, y) and the leaves around its top
plantTree(tiles, x, y, trunk) ==
  LET top == y - trunk
      isTrunk(nx, ny) == nx = x /\ ny < y /\ ny >= y - trunk
      isLeaf(nx, ny) ==
        LET lx == nx - x
            ly == ny - top
        IN  /\ -2 <= lx /\ lx <= 2 /\ -2 <= ly /\ ly <= 1
            /\ (IF lx < 0 THEN -lx ELSE lx) + (IF ly < 0 THEN -ly ELSE ly) < 4
            /\ tiles[ny + 1][nx + 1] = TILES.AIR
  IN  AsRow([row \in 1..CHUNK_SIZE |->
        IF row - 1 < top - 2 \/ row - 1 >= y THEN tiles[row]
        ELSE AsRow([c \in 1..CHUNK_SIZE |->
               IF isTrunk(c - 1, row - 1) THEN TILES.WOOD
               ELSE IF isLeaf(c - 1, row - 1) THEN TILES.LEAVES
               ELSE tiles[row][c]])])

\* lines 143-167: iteration s.x of the loop over x; s = [x, a0, n, tiles] is
\* the loop's state
treeStep(s) ==
  LET y == firstGrass(s.tiles, s.x)
  IN  IF FloorMul(100, rngCall(s.a0, s.n + 1)) < 6 /\ y >= 0           \* rng() < 0.06
      THEN [x |-> s.x + 1, a0 |-> s.a0, n |-> s.n + 2,
            tiles |-> plantTree(s.tiles, s.x, y, 3 + FloorMul(3, rngCall(s.a0, s.n + 2)))]
      ELSE [x |-> s.x + 1, a0 |-> s.a0, n |-> s.n + 1, tiles |-> s.tiles]

\* lines 142-168: the iterations s.x .. last - 1 of the loop, in order,
\* evaluated half by half
RECURSIVE treesLoop(_, _)
treesLoop(s, last) ==
  IF s.x >= last THEN s
  ELSE IF s.x + 1 = last THEN treeStep(s)
  ELSE treesLoop(treesLoop(s, (s.x + last) \div 2), last)

\* lines 142-168
trees(g) == treesLoop([x |-> 2, a0 |-> g.a0, n |-> g.n, tiles |-> g.tiles], CHUNK_SIZE - 2)

(* ------------- WORLD: chunk map ------------- *)
\* A chunk is [tiles, modified].  The grid tiles is kept as the generator it
\* came from and the cells assigned since: tiles.from = <<a0, cx, cy>> names
\* the grid lines 75-168 build for chunk (cx, cy) with a generator created in
\* state a0, and tiles.set maps each assigned cell <<lx, ly>> to its tile.

\* lines 75-168: the grid built with a generator created in state a0
generatedGrid(a0, cx, cy) == trees(ores(caves(heightmap(cx, cy, a0)))).tiles

\* The seeds CONFIG.SEED is drawn from, and the chunks whose grids are built
\* once, ahead of the exploration; any other grid is built where it is read.
Seeds == {26, 42}
PreparedKeys == ((-1..4) \X (-2..2)) \cup {<<6, 0>>}
StateKeys == (-3..8) \X (-3..3)
PreparedState == [s \in Seeds \X StateKeys |-> rngFor(s[1], s[2][1], s[2][2])] @@ <<>>
Prepared == {<<PreparedState[s], s[2][1], s[2][2]>> : s \in Seeds \X PreparedKeys}
PreparedGrid == [f \in Prepared |-> generatedGrid(f[1], f[2], f[3])]

\* lines 46-50, 73: the state in which rngFor(seed, cx, cy) creates the generator
stateFor(seed, cx, cy) ==
  IF <<seed, <<cx, cy>>>> \in Seeds \X StateKeys THEN PreparedState[<<seed, <<cx, cy>>>>]
  ELSE rngFor(seed, cx, cy)

\* the grid tiles.from names
gridFrom(f) == IF f \in Prepared THEN PreparedGrid[f] ELSE generatedGrid(f[1], f[2], f[3])

\* a read that misses the writes: what C4_WriteThenRead rules out
tileInAsGenerated(t, lx, ly) == TileAt(gridFrom(t.from), lx, ly)

\* chunk.tiles[ly][lx]
tileIn(t, lx, ly) ==
  IF <<lx, ly>> \in DOMAIN t.set THEN t.set[<<lx, ly>>] ELSE TileAt(gridFrom(t.from), lx, ly)

\* chunk.tiles after chunk.tiles[ly][lx] = tile
assign(t, lx, ly, tile) ==
  [from |-> t.from,
   set  |-> [c \in DOMAIN t.set \cup {<<lx, ly>>} |->
               IF c = <<lx, ly>> THEN tile ELSE t.set[c]]]

\* chunk.tiles as CHUNK_SIZE rows of CHUNK_SIZE tiles
grid(t) ==
  LET g == gridFrom(t.from)
  IN  [r \in 1..CHUNK_SIZE |-> [c \in 1..CHUNK_SIZE |->
        IF <<c - 1, r - 1>> \in DOMAIN t.set THEN t.set[<<c - 1, r - 1>>] ELSE g[r][c]]]

\* a generator whose seed drifts with the number of resident chunks: what
\* C1_Deterministic rules out
generateChunkDrifting(seed, cx, cy) ==
  [tiles |-> [from |-> <<stateFor(seed + Cardinality(DOMAIN chunks), cx, cy), cx, cy>>,
              set |-> [c \in {} |-> TILES.AIR]],
   modified |-> FALSE]

\* lines 72-171: generateChunk(cx, cy) when CONFIG.SEED is seed
generateChunk(seed, cx, cy) ==
  [tiles |-> [from |-> <<stateFor(seed, cx, cy), cx, cy>>, set |-> [c \in {} |-> TILES.AIR]],
   modified |-> FALSE]

\* line 69: the key `${cx},${cy}`, as character codes
ck(cx, cy) == NumStr(cx) \o <<44>> \o NumStr(cy)

\* the keys of the prepared chunks are built once as well
PreparedKey == [c \in PreparedKeys |-> ck(c[1], c[2])]
keyOf(c) == IF c \in PreparedKeys THEN PreparedKey[c] ELSE ck(c[1], c[2])

\* Math.floor(w / s) for an integer w
chunkCoord(w) == w \div CHUNK_SIZE

\* JavaScript's a % s: the remainder takes the sign of a
jsRem(a, s) == IF a >= 0 THEN a % s ELSE -((-a) % s)

\* the local coordinate without the correction for negative remainders: what
\* C3_RoundTrip rules out
localCoordRem(w) == jsRem(w, CHUNK_SIZE)

\* lines 187-188 and 196-197: ((w % s) + s) % s
localCoord(w) == jsRem(jsRem(w, CHUNK_SIZE) + CHUNK_SIZE, CHUNK_SIZE)

\* an ensureChunk that never finds the key: what C5_Memoized rules out
absentAlways(ch, key) == TRUE

\* line 176: whether ensureChunk calls generateChunk, for the key of line 175
absent(ch, key) == key \notin DOMAIN ch

\* lines 174-181: the chunk ensureChunk(cx, cy) returns when the Map is ch and
\* CONFIG.SEED is seed
ensureChunk(ch, seed, cx, cy) ==
  LET key == keyOf(<<cx, cy>>)
  IN  IF absent(ch, key) THEN generateChunk(seed, cx, cy) ELSE ch[key]

\* the chunks ensureChunk generates when called for each pair of cs
generatedBy(ch, cs) == {c \in cs : absent(ch, keyOf(c))}

\* the Map after ensureChunk has generated the chunks of the pairs of new
withGenerated(ch, seed, new) ==
  IF new = {} THEN ch
  ELSE [k \in {keyOf(c) : c \in new} |->
         LET c == CHOOSE c \in new : keyOf(c) = k
         IN  generateChunk(seed, c[1], c[2])] @@ ch

\* an ensureChunk that generates the chunk whether it is resident or not: what
\* C23_StreamIdempotent rules out
ensuredAfresh(ch, seed, cs) == withGenerated(ch, seed, cs)

\* the Map after ensureChunk has been called for each pair of cs
ensured(ch, seed, cs) == withGenerated(ch, seed, generatedBy(ch, cs))

\* lines 182-190: the tile getTile(worldX, worldY) returns
getTile(ch, seed, worldX, worldY) ==
  tileIn(ensureChunk(ch, seed, chunkCoord(worldX), chunkCoord(worldY)).tiles,
         localCoord(worldX), localCoord(worldY))

\* a setTile that writes the tile and leaves the flag as it is: what
\* C24_DirtyFlag rules out
setTileUnmarked(ch, seed, worldX, worldY, tile) ==
  LET cx == chunkCoord(worldX)
      cy == chunkCoord(worldY)
      chunk == ensureChunk(ch, seed, cx, cy)
  IN  [k \in DOMAIN ch \cup {keyOf(<<cx, cy>>)} |->
        IF k = keyOf(<<cx, cy>>)
        THEN [tiles |-> assign(chunk.tiles, localCoord(worldX), localCoord(worldY), tile),
              modified |-> chunk.modified]
        ELSE ch[k]]

\* lines 191-199: the Map after setTile(worldX, worldY, tile)
setTile(ch, seed, worldX, worldY, tile) ==
  LET cx == chunkCoord(worldX)
      cy == chunkCoord(worldY)
      chunk == ensureChunk(ch, seed, cx, cy)
  IN  [k \in DOMAIN ch \cup {keyOf(<<cx, cy>>)} |->
        IF k = keyOf(<<cx, cy>>)
        THEN [tiles |-> assign(chunk.tiles, localCoord(worldX), localCoord(worldY), tile),
              modified |-> TRUE]
        ELSE ch[k]]

(* ------------- fixed point ------------- *)
\* positions are in units of 1/Unit tile, velocities in half tiles a second
Unit == 60 * 10
Eps  == Unit \div 100                     \* 0.01
Pw   == (9 * Unit) \div 10                \* player.w = 0.9
Ph   == (18 * Unit) \div 10               \* player.h = 1.8
speed == 2 * 6                            \* line 335
Sgn(v) == IF v > 0 THEN 1 ELSE IF v < 0 THEN -1 ELSE 0

(* ------------- PHYSICS & WORLD COLLISIONS ------------- *)
\* lines 314-316
tileSolid(t) == t # TILES.AIR /\ t # TILES.LEAVES

\* lines 319-322: the cells the loops of rectCollidesWithTiles range over
rectCells(x, y, w, h) ==
  (((x - Eps) \div Unit)..((x + w - Eps) \div Unit))
    \X (((y - Eps) \div Unit)..((y + h - Eps) \div Unit))


\* lines 321-325: what the scan of cells does when the cells holding a solid
\* tile are solid: its result, and the cells whose tile it reads, which are
\* those that no solid cell precedes in the order of the loops (ty outer)
scanOf(cells, solid) ==
  [hit   |-> solid # {},
   reads |-> {c \in cells : \A d \in solid : ~(d[2] < c[2] \/ (d[2] = c[2] /\ d[1] < c[1]))}]

\* lines 317-327, with the cells the call reads
rectScan(ch, seed, x, y, w, h) ==
  scanOf(rectCells(x, y, w, h),
         {c \in rectCells(x, y, w, h) : tileSolid(getTile(ch, seed, c[1], c[2]))})

\* lines 317-327
rectCollidesWithTiles(ch, seed, x, y, w, h) == rectScan(ch, seed, x, y, w, h).hit

chunkOfCell(c) == <<chunkCoord(c[1]), chunkCoord(c[2])>>

(* ------------- CHUNK STREAMING ------------- *)
\* a stream over a window one chunk narrower: what C6_Window rules out
streamedNarrow(p) ==
  LET pcx == p.x \div (Unit * CHUNK_SIZE)
      pcy == p.y \div (Unit * CHUNK_SIZE)
  IN  ((pcx - VISIBLE_RANGE + 1)..(pcx + VISIBLE_RANGE - 1))
        \X ((pcy - VISIBLE_RANGE)..(pcy + VISIBLE_RANGE))

\* lines 471-481: the pairs streamChunksAroundPlayer calls ensureChunk for
streamed(p) ==
  LET pcx == p.x \div (Unit * CHUNK_SIZE)
      pcy == p.y \div (Unit * CHUNK_SIZE)
  IN  ((pcx - VISIBLE_RANGE)..(pcx + VISIBLE_RANGE))
        \X ((pcy - VISIBLE_RANGE)..(pcy + VISIBLE_RANGE))

(* ------------- RENDERING ------------- *)
\* lines 402-403 and 446-447: the camera, in units of 1/Unit tile
camX(p, cv) == p.x - (Unit \div (2 * TILE_SIZE)) * cv.width + (Pw \div 2)
camY(p, cv) == p.y - (Unit \div (2 * TILE_SIZE)) * cv.height + (Ph \div 2)

\* Math.ceil(a / b) for positive integers
CeilDiv(a, b) == (a + b - 1) \div b

\* lines 405-415: the pairs of the chunks whose tiles render reads
rendered(p, cv) ==
  LET startX == camX(p, cv) \div Unit
      startY == camY(p, cv) \div Unit
      cols == CeilDiv(cv.width, TILE_SIZE) + 2
      rows == CeilDiv(cv.height, TILE_SIZE) + 2
  IN  (chunkCoord(startX)..chunkCoord(startX + cols - 1))
        \X (chunkCoord(startY)..chunkCoord(startY + rows - 1))
vars == <<SEED, chunks, canvas, player, keys, mouse, saveTimeout, requests, localWorld,
          pc, generated, written, mining, stepped, ticks, gen, timing>>

(* ------------- bounds and inputs ------------- *)
MaxTicks == 1          \* gameSteps of the world specification
MaxTimerId == 2        \* calls of scheduleWorldSave
MaxRequests == 1       \* requests of saveWorldToServer awaiting their response
MaxWalk == 12          \* tenths of a tile from the spawn column within which a
                       \* gameStep of the physics specification starts

\* the sizes getBoundingClientRect reports for the canvas wrapper
RectSizes == {<<200, 100>>, <<1920, 1080>>}

\* the positions mousemove computes
MousePoints == {<<228, 302>>, <<264, 158>>, <<1800, 230>>}

\* the values of e.key
KeyNames == {"a", "A", "w"}

NoItems == [i \in {} |-> 0]

SpawnX == 60 * Unit
SpawnY == 10 * Unit

\* no call of generateChunk is being followed
Idle == [stage |-> "idle", cx |-> 0, cy |-> 0,
         g |-> [a0 |-> <<0, 0>>, n |-> 0, tiles |-> <<>>], indices |-> {}]

\* WORLD_SAVE_DEBOUNCE (line 22) and the period of the interval of line 584, in
\* units of 1000 ms
Debounce == 2
SavePeriod == 60

\* no timer has been set and no tile written
Untimed == [timers |-> {}, auto |-> SavePeriod, quiet |-> Debounce, unsaved |-> {}]

\* the state of the page once the script has been evaluated up to init()
fresh ==
  /\ chunks = [k \in {} |-> 0]
  /\ canvas = [width |-> 300, height |-> 150]       \* a canvas element's default size
  /\ player = [x |-> SpawnX, y |-> SpawnY, vx |-> 0, vy |-> 0, grounded |-> FALSE,
               inventory |-> NoItems]
  /\ keys = {}
  /\ mouse = [x |-> 0, y |-> 0, down |-> FALSE]
  /\ saveTimeout = [id |-> 0, pending |-> FALSE]
  /\ requests = {}
  /\ localWorld = <<>>
  /\ pc = "load"
  /\ generated = [k \in {} |-> 0]
  /\ written = [c \in {} |-> TILES.AIR]
  /\ mining = [wx |-> 0, wy |-> 0, tile |-> "none"]
  /\ stepped = [jumped |-> FALSE, landed |-> FALSE, landedSince |-> FALSE]
  /\ ticks = 0
  /\ gen = Idle
  /\ timing = Untimed

Init == SEED \in Seeds /\ fresh

\* the history after generateChunk has been called for the pairs of new
counted(new) ==
  IF new = {} THEN generated
  ELSE LET ks == {keyOf(c) : c \in new}
       IN  [k \in DOMAIN generated \cup ks |->
             (IF k \in DOMAIN generated THEN generated[k] ELSE 0) + (IF k \in ks THEN 1 ELSE 0)]

\* lines 207-213
resizeCanvasToFit(rect) == [width |-> Max(320, rect[1]), height |-> Max(240, rect[2])]

\* lines 569-595: init()
InitGame ==
  /\ pc = "load"
  /\ pc' = "run"
  /\ \E rect \in RectSizes : canvas' = resizeCanvasToFit(rect)
  /\ chunks' = ensured(chunks, SEED, streamed(player))
  /\ generated' = counted(generatedBy(chunks, streamed(player)))
  /\ UNCHANGED <<timing, gen, SEED, player, keys, mouse, saveTimeout, requests, localWorld, written,
                 mining, stepped, ticks>>

\* line 214: the window is resized
Resize ==
  /\ pc = "run"
  /\ \E rect \in RectSizes : canvas' = resizeCanvasToFit(rect)
  /\ UNCHANGED <<timing, gen, SEED, chunks, player, keys, mouse, saveTimeout, requests, localWorld, pc,
                 generated, written, mining, stepped, ticks>>

(* ------------- INPUT ------------- *)
toLowerCase(k) == CASE k = "A" -> "a" [] k = "D" -> "d" [] k = "W" -> "w" [] OTHER -> k

\* line 245
KeyDown ==
  /\ pc = "run"
  /\ \E k \in KeyNames : keys' = keys \cup {toLowerCase(k)}
  /\ UNCHANGED <<timing, gen, SEED, chunks, canvas, player, mouse, saveTimeout, requests, localWorld, pc,
                 generated, written, mining, stepped, ticks>>

\* line 246
KeyUp ==
  /\ pc = "run"
  /\ \E k \in KeyNames : keys' = keys \ {toLowerCase(k)}
  /\ UNCHANGED <<timing, gen, SEED, chunks, canvas, player, mouse, saveTimeout, requests, localWorld, pc,
                 generated, written, mining, stepped, ticks>>

\* lines 433-437
MouseMove ==
  /\ pc = "run"
  /\ \E m \in MousePoints :
       /\ m[1] <= canvas.width /\ m[2] <= canvas.height
       /\ mouse' = [mouse EXCEPT !.x = m[1], !.y = m[2]]
  /\ UNCHANGED <<timing, gen, SEED, chunks, canvas, player, keys, saveTimeout, requests, localWorld, pc,
                 generated, written, mining, stepped, ticks>>

\* line 438
MouseDown ==
  /\ pc = "run"
  /\ mouse' = [mouse EXCEPT !.down = TRUE]
  /\ UNCHANGED <<timing, gen, SEED, chunks, canvas, player, keys, saveTimeout, requests, localWorld, pc,
                 generated, written, mining, stepped, ticks>>

\* line 439
MouseUp ==
  /\ pc = "run"
  /\ mouse' = [mouse EXCEPT !.down = FALSE]
  /\ UNCHANGED <<timing, gen, SEED, chunks, canvas, player, keys, saveTimeout, requests, localWorld, pc,
                 generated, written, mining, stepped, ticks>>

(* ------------- GAME LOOP ------------- *)
\* a jump that does not ask for the ground: what C10_JumpGated rules out
jumpsAirborne(p, ks) == "w" \in ks \/ " " \in ks

\* line 339: whether gameStep applies the jump impulse
jumps(p, ks) == ("w" \in ks \/ " " \in ks) /\ p.grounded

\* lines 335-344: input and gravity.  The passes of gameStep hand on
\* s = [x, y, vx, vy, grounded, jumped, landed, reads]: the player's fields
\* (vx and vy in half tiles per second, so that vy * dt is 5 * vy units),
\* whether the step jumped and landed, and the cells whose tile it read.
input(p, ks) ==
  [x |-> p.x, y |-> p.y,
   vx |-> IF "a" \in ks \/ "arrowleft" \in ks THEN -speed
          ELSE IF "d" \in ks \/ "arrowright" \in ks THEN speed ELSE 0,
   vy |-> (IF jumps(p, ks) THEN -20 ELSE p.vy) + 1,     \* vy = -10; vy += 30 * dt
   grounded |-> p.grounded /\ ~jumps(p, ks),
   jumped |-> jumps(p, ks), landed |-> FALSE, reads |-> {}]

\* lines 356-358: the loop from player.x = x; its tests scan t, then the rest
slideFrom(ch, seed, x, y, sign, t, rest) ==
  IF t.hit THEN [x |-> x, reads |-> t.reads]
  ELSE [x |-> rest.x, reads |-> t.reads \cup rest.reads]

\* lines 355-358: player.x after the loop, and the cells its tests read
RECURSIVE slide(_, _, _, _, _)
slide(ch, seed, x, y, sign) ==
  IF sign = 0 THEN [x |-> x, reads |-> {}]
  ELSE slideFrom(ch, seed, x, y, sign, rectScan(ch, seed, x + sign * Eps, y, Pw, Ph),
                 slide(ch, seed, x + sign * Eps, y, sign))

\* a horizontal pass that takes the tentative move although it collides: what
\* C17_HorizontalResolution rules out
stoppedAtTentative(s, t, to) ==
  [s EXCEPT !.x = s.x + 5 * s.vx, !.vx = 0, !.reads = t.reads \cup to.reads]

\* lines 351-360 when the test of line 351 scans t and the loop gives to
stopped(s, t, to) ==
  [s EXCEPT !.x = to.x, !.vx = 0, !.reads = t.reads \cup to.reads]

\* lines 351-360: the horizontal pass, whose first test scans t
horizontal(s, t, ch, seed) ==
  IF t.hit THEN stopped(s, t, slide(ch, seed, s.x, s.y, Sgn(s.vx)))
  ELSE [s EXCEPT !.x = s.x + 5 * s.vx, !.reads = t.reads]

\* lines 363-375: the vertical pass, whose test scans t
vertical(s, t) ==
  IF t.hit
  THEN [s EXCEPT !.y = ((s.y + Ph) \div Unit) * Unit - Ph,  \* vy is 0 at line 372
                 !.vy = 0,
                 !.grounded = s.vy > 0 \/ s.grounded,
                 !.landed = s.vy > 0,
                 !.reads = @ \cup t.reads]
  ELSE [s EXCEPT !.y = s.y + 5 * s.vy, !.grounded = FALSE, !.reads = @ \cup t.reads]

horizontalPass(s, ch, seed) ==
  horizontal(s, rectScan(ch, seed, s.x + 5 * s.vx, s.y, Pw, Ph), ch, seed)

verticalPass(s, ch, seed) ==
  vertical(s, rectScan(ch, seed, s.x, s.y + 5 * s.vy, Pw, Ph))

\* lines 335-375: input, gravity and the two collision passes of gameStep
integrate(p, ks, ch, seed) == verticalPass(horizontalPass(input(p, ks), ch, seed), ch, seed)

\* the player after the passes left s
moved(p, s) ==
  [p EXCEPT !.x = s.x, !.y = s.y, !.vx = s.vx, !.vy = s.vy, !.grounded = s.grounded]

\* lines 174-181, 378, 381: the chunks a gameStep calls ensureChunk for: those
\* of the cells the passes read, those streamChunksAroundPlayer asks for and
\* those of the tiles render draws
touched(s, p, cv) ==
  {chunkOfCell(c) : c \in s.reads} \cup streamed(p) \cup rendered(p, cv)

\* lines 176-178: the chunks of new join the store
loaded(new) ==
  /\ chunks' = withGenerated(chunks, SEED, new)
  /\ generated' = counted(new)

\* lines 333-382 when the passes leave s
gameStepTo(s) ==
  /\ pc = "run"
  /\ player' = moved(player, s)
  /\ loaded(generatedBy(chunks, touched(s, moved(player, s), canvas)))
  /\ stepped' = [jumped |-> s.jumped, landed |-> s.landed,
                 landedSince |-> ~s.jumped /\ (s.landed \/ stepped.landedSince)]
  /\ UNCHANGED <<timing, gen, SEED, canvas, keys, mouse, saveTimeout, requests, localWorld, pc,
                 written, mining>>

\* lines 333-382: gameStep(STEP)
gameStep == gameStepTo(integrate(player, keys, chunks, SEED))

\* a gameStep of the world specification
Tick == ticks < MaxTicks /\ gameStep /\ ticks' = ticks + 1

\* a gameStep of the physics specification
Walk ==
  /\ player.x >= SpawnX - MaxWalk * (Unit \div 10)
  /\ player.x <= SpawnX + MaxWalk * (Unit \div 10)
  /\ gameStep
  /\ UNCHANGED ticks

(* ------------- SAVE ------------- *)
\* lines 486-489
scheduleWorldSave(t) == [id |-> t.id + 1, pending |-> TRUE]

\* a save that serializes every resident chunk: what C13_SavePayload rules out
modifiedKeysAll(ch) == DOMAIN ch

\* lines 494-497: the keys of data
modifiedKeys(ch) == {k \in DOMAIN ch : ch[k].modified}

\* lines 503-507, without the timestamp
payloadOf(seed, ch, ks) == [seed |-> seed, chunks |-> [k \in ks |-> ch[k].tiles]]

\* lines 491-514: saveWorldToServer up to the fetch
saveWorldToServer ==
  requests' = IF modifiedKeys(chunks) = {} THEN requests
              ELSE requests \cup {payloadOf(SEED, chunks, modifiedKeys(chunks))}

\* line 584: the callback of the interval on everything but the timers
\* followed in time
intervalSave ==
  /\ pc = "run"
  /\ saveTimeout.id < MaxTimerId
  /\ saveTimeout' = scheduleWorldSave(saveTimeout)
  /\ UNCHANGED <<gen, SEED, chunks, canvas, player, keys, mouse, requests, localWorld, pc,
                 generated, written, mining, stepped, ticks>>

\* line 584: the periodic timer
AutoSave == intervalSave /\ UNCHANGED timing

\* line 488: the debounce timer fires
SaveTimer ==
  /\ saveTimeout.pending
  /\ Cardinality(requests) < MaxRequests
  /\ saveTimeout' = [saveTimeout EXCEPT !.pending = FALSE]
  /\ saveWorldToServer
  /\ UNCHANGED <<timing, gen, SEED, chunks, canvas, player, keys, mouse, localWorld, pc,
                 generated, written, mining, stepped, ticks>>

\* line 587: the save button
ClickSave ==
  /\ pc = "run"
  /\ Cardinality(requests) < MaxRequests
  /\ saveWorldToServer
  /\ UNCHANGED <<timing, gen, SEED, chunks, canvas, player, keys, mouse, saveTimeout, localWorld, pc,
                 generated, written, mining, stepped, ticks>>

\* a save that marks the chunks clean once the response is ok: what
\* C9_Monotonic rules out
FetchOkClearing ==
  /\ \E r \in requests : requests' = requests \ {r}
  /\ chunks' = [k \in DOMAIN chunks |-> [chunks[k] EXCEPT !.modified = FALSE]]
  /\ UNCHANGED <<timing, gen, SEED, canvas, player, keys, mouse, saveTimeout, localWorld, pc,
                 generated, written, mining, stepped, ticks>>

\* lines 515-517: the response is ok
FetchOk ==
  /\ \E r \in requests : requests' = requests \ {r}
  /\ UNCHANGED <<timing, gen, SEED, chunks, canvas, player, keys, mouse, saveTimeout, localWorld, pc,
                 generated, written, mining, stepped, ticks>>

\* lines 518-522: the fetch rejects or the response is not ok; payload.chunks
\* holds the chunks' own tiles arrays, which are serialized here
FetchFail ==
  /\ \E r \in requests :
       /\ requests' = requests \ {r}
       /\ localWorld' = <<payloadOf(r.seed, chunks, DOMAIN r.chunks)>>
  /\ UNCHANGED <<timing, gen, SEED, chunks, canvas, player, keys, mouse, saveTimeout, pc,
                 generated, written, mining, stepped, ticks>>

(* ------------- MINING ------------- *)
\* line 257
add(inv, item, count) ==
  [i \in DOMAIN inv \cup {item} |->
     (IF i \in DOMAIN inv THEN inv[i] ELSE 0) + (IF i = item THEN count ELSE 0)]

\* a drop mapping that credits stone for every tile: what C7_MineSolid rules out
droppedStone(inv, tile) == add(inv, "stone", 1)

\* a drop mapping that credits the resource twice: what C25_NoDoubleCredit
\* rules out
droppedTwice(inv, tile) ==
  IF tile = TILES.WOOD THEN add(inv, "wood", 2)
  ELSE IF tile = TILES.COAL THEN add(inv, "coal", 2)
  ELSE IF tile = TILES.COPPER THEN add(inv, "copper", 2)
  ELSE IF tile = TILES.DIRT \/ tile = TILES.GRASS THEN add(inv, "dirt", 2)
  ELSE IF tile = TILES.STONE THEN add(inv, "stone", 2)
  ELSE inv

\* lines 455-465: the inventory after the drop for a mined tile
dropped(inv, tile) ==
  IF tile = TILES.WOOD THEN add(inv, "wood", 1)
  ELSE IF tile = TILES.COAL THEN add(inv, "coal", 1)
  ELSE IF tile = TILES.COPPER THEN add(inv, "copper", 1)
  ELSE IF tile = TILES.DIRT \/ tile = TILES.GRASS THEN add(inv, "dirt", 1)
  ELSE IF tile = TILES.STONE THEN add(inv, "stone", 1)
  ELSE inv

\* lines 448-449: the cell under the mouse
underMouse(p, cv, m) ==
  <<(m.x * (Unit \div TILE_SIZE) + camX(p, cv)) \div Unit,
    (m.y * (Unit \div TILE_SIZE) + camY(p, cv)) \div Unit>>

\* a tickMining that breaks whatever it reads: what C8_MineAir rules out
breaksAny(tile) == TRUE

\* line 451: whether tickMining breaks the tile it read
breaks(tile) == tile # TILES.AIR

\* lines 450-465: tickMining from the read of the tile at the cell at, when
\* the read gives tile
mine(at, tile) ==
  /\ mining' = [wx |-> at[1], wy |-> at[2], tile |-> tile]
  /\ generated' = counted(generatedBy(chunks, {chunkOfCell(at)}))
  /\ IF breaks(tile)
     THEN /\ chunks' = setTile(chunks, SEED, at[1], at[2], TILES.AIR)
          /\ written' = [c \in DOMAIN written \cup {at} |->
                           IF c = at THEN TILES.AIR ELSE written[c]]
          /\ saveTimeout' = scheduleWorldSave(saveTimeout)
          /\ player' = [player EXCEPT !.inventory = dropped(@, tile)]
     ELSE /\ chunks' = ensured(chunks, SEED, {chunkOfCell(at)})
          /\ UNCHANGED <<player, saveTimeout, written>>

\* lines 448-450: tickMining from the cell under the mouse
mineAt(at) == mine(at, getTile(chunks, SEED, at[1], at[2]))

\* lines 441-468: tickMining() on everything but the timers followed in time
tickMining ==
  /\ pc = "run"
  /\ saveTimeout.id < MaxTimerId
  /\ IF mouse.down
     THEN mineAt(underMouse(player, canvas, mouse))
     ELSE UNCHANGED <<chunks, generated, player, saveTimeout, written, mining>>
  /\ UNCHANGED <<gen, SEED, canvas, keys, mouse, requests, localWorld, pc, stepped, ticks>>

\* lines 441-468: tickMining(), from either of the two timers of lines 580-581
TickMining == tickMining /\ UNCHANGED timing

(* ------------- specifications ------------- *)
\* the world: mouse, mining, resizing, saving and a few gameSteps
Next ==
  \/ InitGame \/ Resize \/ MouseMove \/ MouseDown \/ MouseUp \/ TickMining \/ Tick
  \/ AutoSave \/ SaveTimer \/ ClickSave \/ FetchOk \/ FetchFail

Spec == Init /\ [][Next]_vars

\* the physics: the keyboard and gameSteps near the spawn column
NextPhysics == InitGame \/ KeyDown \/ KeyUp \/ Walk

SpecPhysics == Init /\ [][NextPhysics]_vars

(* ------------- generateChunk, stage by stage ------------- *)
\* The indices of a stage are the pairs <<x, y>> for which the stage evaluates
\* tiles[y][x], to read or to write it.

\* the chunks whose generation is followed
GenKeys == (-1..4) \X (-2..2)

\* lines 79, 86 and 131-132: the loops over every x and y
allIndices == (0..(CHUNK_SIZE - 1)) \X (0..(CHUNK_SIZE - 1))

\* a guard that lets every index through: what C12_Total rules out
inGridAlways(nx, ny) == TRUE

\* lines 106 and 157: the guard before tiles[ny][nx]
inGrid(nx, ny) == nx >= 0 /\ nx < CHUNK_SIZE /\ ny >= 0 /\ ny < CHUNK_SIZE

\* lines 103-109: the indices of the disc of radius r around (tx, ty)
discIndices(tx, ty, r) ==
  {p \in ((tx - r)..(tx + r)) \X ((ty - r)..(ty + r)) :
     inGrid(p[1], p[2]) /\ inDisc(p[1] - tx, p[2] - ty, r)}

\* lines 101-110: the indices of the iterations s.i .. length - 1
RECURSIVE walkIndices(_, _, _)
walkIndices(s, u, length) ==
  IF s.i >= length THEN {}
  ELSE discIndices(s.tx, s.ty, 1 + (FloorMul(22, u[3 * s.i + 1]) \div 10))
         \cup walkIndices(tunnelStep(s, u), u, length)

\* lines 117-125: the indices of the loop over y, which starts at row w.ty of
\* column w.tx and ends at row 0 at the latest
drillIndices(w, u) == IF FloorMul(100, u) < 12 THEN {w.tx} \X (0..w.ty) ELSE {}

\* lines 98-126: the indices of one tunnel, from its first state s
tunnelIndicesFrom(s, u, length) ==
  walkIndices(s, u, length) \cup drillIndices(tunnelWalk(s, u, length), u[Len(u)])

tunnelIndicesOf(g, utx, uty, length) ==
  tunnelIndicesFrom(tunnelStart(g.tiles, utx, uty),
                    rngCalls(g.a0, g.n + 3, 3 * length + 1), length)

tunnelIndicesDraws(g, u) == tunnelIndicesOf(g, u[1], u[2], 10 + FloorMul(30, u[3]))

tunnelIndices(g) == tunnelIndicesDraws(g, rngCalls(g.a0, g.n, 3))

\* lines 97-127
RECURSIVE tunnelsIndices(_, _, _)
tunnelsIndices(g, t, tunnels) ==
  IF t = tunnels THEN {}
  ELSE tunnelIndices(g) \cup tunnelsIndices(tunnel(g), t + 1, tunnels)

\* lines 95-128
cavesIndices(g) ==
  IF FloorMul(100, rngCall(g.a0, g.n + 1)) < 65
  THEN tunnelsIndices([a0 |-> g.a0, n |-> g.n + 2, tiles |-> g.tiles], 0,
                      1 + FloorMul(2, rngCall(g.a0, g.n + 2)))
  ELSE {}

\* lines 145-146: the loop over y reads column x from row 0 to the first
\* GRASS, at row y, or to row size - 2 when it finds none (y = -1)
searchIndices(x, y) == {x} \X (0..(IF y >= 0 THEN y ELSE CHUNK_SIZE - 2))

\* lines 149-151: the trunk, t = 1 .. trunk while y - t >= 0
trunkIndices(x, y, trunk) == {<<x, y - t>> : t \in {t \in 1..trunk : y - t >= 0}}

\* lines 154-161: the leaves around (x, top)
leafIndices(x, top) ==
  {p \in ((x - 2)..(x + 2)) \X ((top - 2)..(top + 1)) :
     /\ inGrid(p[1], p[2])
     /\ (IF p[1] < x THEN x - p[1] ELSE p[1] - x)
          + (IF p[2] < top THEN top - p[2] ELSE p[2] - top) < 4}

\* lines 148-163
plantIndices(x, y, trunk) == trunkIndices(x, y, trunk) \cup leafIndices(x, y - trunk)

\* lines 143-167: the indices of iteration s.x
treeIndicesAt(s, y) ==
  IF FloorMul(100, rngCall(s.a0, s.n + 1)) < 6
  THEN searchIndices(s.x, y)
         \cup (IF y >= 0 THEN plantIndices(s.x, y, 3 + FloorMul(3, rngCall(s.a0, s.n + 2)))
               ELSE {})
  ELSE {}

\* lines 142-168: the indices of the iterations s.x .. last - 1
RECURSIVE treesIndicesFrom(_, _)
treesIndicesFrom(s, last) ==
  IF s.x >= last THEN {}
  ELSE treeIndicesAt(s, firstGrass(s.tiles, s.x)) \cup treesIndicesFrom(treeStep(s), last)

treesIndices(g) ==
  treesIndicesFrom([x |-> 2, a0 |-> g.a0, n |-> g.n, tiles |-> g.tiles], CHUNK_SIZE - 2)

\* the world's variables, which a followed call of generateChunk leaves alone
world == <<SEED, chunks, canvas, player, keys, mouse, saveTimeout, requests, localWorld,
           pc, generated, written, mining, stepped, ticks, timing>>

\* lines 73-92: generateChunk(cx, cy) is called and fills the columns
GenHeightmap ==
  /\ gen.stage = "idle"
  /\ \E c \in GenKeys :
       gen' = [stage |-> "heightmap", cx |-> c[1], cy |-> c[2],
               g |-> heightmap(c[1], c[2], stateFor(SEED, c[1], c[2])),
               indices |-> allIndices]
  /\ UNCHANGED world

\* lines 95-128
GenCaves ==
  /\ gen.stage = "heightmap"
  /\ gen' = [gen EXCEPT !.stage = "caves", !.g = caves(gen.g),
                        !.indices = cavesIndices(gen.g)]
  /\ UNCHANGED world

\* lines 131-139
GenOres ==
  /\ gen.stage = "caves"
  /\ gen' = [gen EXCEPT !.stage = "ores", !.g = ores(gen.g), !.indices = allIndices]
  /\ UNCHANGED world

\* lines 142-170
GenTrees ==
  /\ gen.stage = "ores"
  /\ gen' = [gen EXCEPT !.stage = "trees", !.g = trees(gen.g),
                        !.indices = treesIndices(gen.g)]
  /\ UNCHANGED world

NextGen == GenHeightmap \/ GenCaves \/ GenOres \/ GenTrees

\* line 16: seeds the generator is followed for, the least and the greatest
\* value of CONFIG.SEED among them
GenSeeds == Seeds \cup {0, 999999}

InitGen == SEED \in GenSeeds /\ fresh

\* generateChunk on its own, for each seed of GenSeeds and each chunk of GenKeys
SpecGen == InitGen /\ [][NextGen]_vars

(* ------------- THE SAVE TIMERS IN TIME ------------- *)
\* a scheduleWorldSave that sets the new timer without clearing the old one:
\* what C22_DebouncedSave rules out
rescheduledKeeping(timers, old, new) == timers \cup {[id |-> new.id, left |-> Debounce]}

\* lines 487-488 on the pending timers: clearTimeout(saveTimeout), then
\* setTimeout(..., WORLD_SAVE_DEBOUNCE) with handle new.id
rescheduled(timers, old, new) ==
  {t \in timers : t.id # old.id} \cup {[id |-> new.id, left |-> Debounce]}

\* the timers after a handler that took saveTimeout from old to new, calling
\* scheduleWorldSave iff they differ, and wrote to the chunks of ks
called(tm, old, new, ks) ==
  IF new = old THEN tm
  ELSE [tm EXCEPT !.timers = rescheduled(@, old, new), !.quiet = 0,
                  !.unsaved = @ \cup ks]

\* lines 441-468 with lines 200 and 486-489: tickMining() at some time
MineTimed ==
  /\ tickMining
  /\ timing' = called(timing, saveTimeout, saveTimeout',
                      IF written' # written
                      THEN {keyOf(chunkOfCell(underMouse(player, canvas, mouse)))}
                      ELSE {})

\* line 584: the interval fires when its period has passed
IntervalTimed ==
  /\ timing.auto = 0
  /\ intervalSave
  /\ timing' = [called(timing, saveTimeout, saveTimeout', {}) EXCEPT !.auto = SavePeriod]

\* line 488: a pending timer fires when its delay has passed, and runs
\* saveWorldToServer, whose payload holds every modified chunk
TimeoutTimed ==
  /\ Cardinality(requests) < MaxRequests
  /\ \E t \in timing.timers :
       /\ t.left = 0
       /\ timing' = [timing EXCEPT !.timers = @ \ {t},
                                   !.unsaved = @ \ modifiedKeys(chunks)]
       /\ saveTimeout' = IF t.id = saveTimeout.id
                         THEN [saveTimeout EXCEPT !.pending = FALSE]
                         ELSE saveTimeout
  /\ saveWorldToServer
  /\ UNCHANGED <<gen, SEED, chunks, canvas, player, keys, mouse, localWorld, pc,
                 generated, written, mining, stepped, ticks>>

\* 1000 ms pass with no timer due; the interval is followed while
\* scheduleWorldSave can still be called
Advance ==
  /\ pc = "run"
  /\ \A t \in timing.timers : t.left > 0
  /\ timing.auto > 0 \/ saveTimeout.id >= MaxTimerId
  /\ timing' = [timing EXCEPT
                  !.timers = {[t EXCEPT !.left = @ - 1] : t \in @},
                  !.auto = Max(0, @ - 1),
                  !.quiet = Min(Debounce, @ + 1)]
  /\ UNCHANGED <<gen, SEED, chunks, canvas, player, keys, mouse, saveTimeout, requests,
                 localWorld, pc, generated, written, mining, stepped, ticks>>

NextSave ==
  \/ InitGame \/ MouseMove \/ MouseDown \/ MouseUp \/ MineTimed \/ IntervalTimed
  \/ TimeoutTimed \/ Advance \/ FetchOk \/ FetchFail

\* timers fire when they are due, time passes, and a fetch is answered
FairSave ==
  /\ WF_vars(Advance) /\ WF_vars(TimeoutTimed) /\ WF_vars(IntervalTimed)
  /\ WF_vars(FetchOk \/ FetchFail)

\* mining and the save in time
SpecSave == Init /\ [][NextSave]_vars /\ FairSave

(* ------------- properties ------------- *)
\* the pair (cx, cy) a resident chunk was generated for
coordsOf(chunk) == <<chunk.tiles.from[2], chunk.tiles.from[3]>>

\* a chunk's tiles without the writes made since it was generated
asGenerated(chunk) == [from |-> chunk.tiles.from, set |-> [c \in {} |-> TILES.AIR]]

roundTrips(w) ==
  /\ localCoord(w) >= 0 /\ localCoord(w) < CHUNK_SIZE
  /\ chunkCoord(w) * CHUNK_SIZE + localCoord(w) = w

\* C3: coordinate round trip.  It holds on a range of coordinates around 0
\* and for the cell under the mouse; wx = -1 resolves to chunk -1, local 31;
\* and every cell setTile has written lies, in the chunk generated for its
\* chunk coordinates, at its local coordinates.
C3_RoundTrip ==
  /\ \A w \in (-(2 * CHUNK_SIZE) - 1)..(2 * CHUNK_SIZE + 1) : roundTrips(w)
  /\ roundTrips(underMouse(player, canvas, mouse)[1])
  /\ roundTrips(underMouse(player, canvas, mouse)[2])
  /\ chunkCoord(-1) = -1 /\ localCoord(-1) = CHUNK_SIZE - 1
  /\ \A c \in DOMAIN written :
       /\ keyOf(chunkOfCell(c)) \in DOMAIN chunks
       /\ coordsOf(chunks[keyOf(chunkOfCell(c))]) = chunkOfCell(c)
       /\ <<localCoord(c[1]), localCoord(c[2])>>
            \in DOMAIN chunks[keyOf(chunkOfCell(c))].tiles.set

\* tickMining has written the cell it read at wx = -1, in chunk -1 at local 31
C3_Witness ==
  /\ mining.wx = -1
  /\ <<mining.wx, mining.wy>> \in DOMAIN written
  /\ \E k \in DOMAIN chunks :
       /\ coordsOf(chunks[k])[1] = -1
       /\ <<31, localCoord(mining.wy)>> \in DOMAIN chunks[k].tiles.set

\* C4: write-then-read.  Every cell setTile has written reads as the tile of
\* the last write to it, and its chunk is modified.
C4_WriteThenRead ==
  \A c \in DOMAIN written :
    /\ getTile(chunks, SEED, c[1], c[2]) = written[c]
    /\ chunks[keyOf(chunkOfCell(c))].modified

\* after a write and a later gameStep, tickMining read a written cell again
C4_Witness ==
  /\ ticks > 0
  /\ <<mining.wx, mining.wy>> \in DOMAIN written
  /\ mining.tile = TILES.AIR

\* C5: chunk store memoization.  In every step the resident keys stay
\* resident, no key has had the generator run for it more than once, and a
\* resident chunk changes only in a step in which setTile writes a cell of it.
C5_Memoized ==
  [][/\ \A k \in DOMAIN chunks :
          /\ k \in DOMAIN chunks'
          /\ \/ chunks'[k] = chunks[k]
             \/ /\ written' # written
                /\ k = keyOf(chunkOfCell(<<mining'.wx, mining'.wy>>))
     /\ \A k \in DOMAIN generated' : generated'[k] = 1
     /\ DOMAIN generated' = DOMAIN chunks']_vars

\* ensureChunk has been called again for resident chunks, one of them written
C5_Witness ==
  /\ ticks > 0
  /\ Cardinality(DOMAIN chunks) > 25
  /\ \E k \in DOMAIN chunks : chunks[k].modified

\* the pairs within VISIBLE_RANGE of the player's chunk, in the maximum norm
window(p) ==
  {c \in ((p.x \div (Unit * CHUNK_SIZE)) - VISIBLE_RANGE - 1
            ..(p.x \div (Unit * CHUNK_SIZE)) + VISIBLE_RANGE + 1)
        \X ((p.y \div (Unit * CHUNK_SIZE)) - VISIBLE_RANGE - 1
            ..(p.y \div (Unit * CHUNK_SIZE)) + VISIBLE_RANGE + 1) :
     /\ c[1] - (p.x \div (Unit * CHUNK_SIZE)) \in -VISIBLE_RANGE..VISIBLE_RANGE
     /\ c[2] - (p.y \div (Unit * CHUNK_SIZE)) \in -VISIBLE_RANGE..VISIBLE_RANGE}

\* C6: the streaming window.  The call of streamChunksAroundPlayer that init
\* makes on the empty store leaves resident exactly the chunks of the window,
\* each generated for its own pair: (2 * VISIBLE_RANGE + 1)^2 = 25 chunks.
C6_Window ==
  [][pc = "load" =>
       /\ DOMAIN chunks = {}
       /\ {coordsOf(chunks'[k]) : k \in DOMAIN chunks'} = window(player)
       /\ Cardinality(DOMAIN chunks') = (2 * VISIBLE_RANGE + 1) * (2 * VISIBLE_RANGE + 1)
       /\ Cardinality(DOMAIN chunks') = 25
       /\ \A c \in window(player) : keyOf(c) \in DOMAIN chunks']_vars

\* init has streamed and nothing else has touched the store
C6_Witness == pc = "run" /\ ticks = 0 /\ Cardinality(DOMAIN chunks) = 25

\* the inventory inv with count more of item
credited(inv, item, count) ==
  [i \in DOMAIN inv \cup {item} |->
     IF i = item THEN (IF i \in DOMAIN inv THEN inv[i] ELSE 0) + count ELSE inv[i]]

\* the resource of the fixed mapping for a solid tile
resourceOf(tile) ==
  IF tile = TILES.WOOD THEN "wood" ELSE IF tile = TILES.COAL THEN "coal"
  ELSE IF tile = TILES.COPPER THEN "copper" ELSE IF tile = TILES.STONE THEN "stone"
  ELSE "dirt"

\* a step of tickMining with the button down, by what it read
minesStep(tile) ==
  /\ TickMining /\ mouse.down
  /\ getTile(chunks, SEED, underMouse(player, canvas, mouse)[1],
             underMouse(player, canvas, mouse)[2]) = tile

\* C7: mining a solid tile.  A step of tickMining that reads GRASS, DIRT,
\* STONE, COAL, COPPER or WOOD under the pointer leaves AIR there and adds
\* exactly 1 to the count of the tile's resource, and to no other count.
C7_MineSolid ==
  [][\A tile \in {TILES.GRASS, TILES.DIRT, TILES.STONE, TILES.COAL, TILES.COPPER,
                   TILES.WOOD} :
       minesStep(tile) =>
         /\ getTile(chunks', SEED, underMouse(player, canvas, mouse)[1],
                    underMouse(player, canvas, mouse)[2]) = TILES.AIR
         /\ player'.inventory = credited(player.inventory, resourceOf(tile), 1)]_vars

\* tickMining has just mined a solid tile, and its resource is in the inventory
C7_Witness ==
  /\ mining.tile \in {TILES.WOOD, TILES.COAL, TILES.GRASS, TILES.DIRT, TILES.STONE}
  /\ resourceOf(mining.tile) \in DOMAIN player.inventory
  /\ <<mining.wx, mining.wy>> \in DOMAIN written

\* C8: mining AIR is a no-op.  A step of tickMining that reads AIR leaves the
\* inventory, the record of writes, every resident chunk (so its modified
\* flag) and the save timer as they were.
C8_MineAir ==
  [][minesStep(TILES.AIR) =>
       /\ player' = player
       /\ written' = written
       /\ \A k \in DOMAIN chunks : chunks'[k] = chunks[k]
       /\ \A k \in DOMAIN chunks' \ DOMAIN chunks : ~chunks'[k].modified
       /\ saveTimeout' = saveTimeout
       /\ requests' = requests]_vars

\* tickMining read AIR at a cell of a chunk it has had generated
C8_Witness == mining.tile = TILES.AIR /\ Cardinality(DOMAIN chunks) > 25

\* C9: the modified flag is monotonic: no step sets it back to false
C9_Monotonic ==
  [][\A k \in DOMAIN chunks :
       chunks[k].modified => k \in DOMAIN chunks' /\ chunks'[k].modified]_vars

\* a modified chunk has been through a gameStep, a save and a failed fetch
C9_Witness ==
  /\ ticks > 0 /\ localWorld # <<>>
  /\ \E k \in DOMAIN chunks : chunks[k].modified

\* the cells the box of a player at (x, y) overlaps by more than 0.01, the
\* tolerance of rectCollidesWithTiles, in each direction
boxCells(x, y) ==
  (((x + Eps) \div Unit)..((x + Pw - Eps - 1) \div Unit))
    \X (((y + Eps) \div Unit)..((y + Ph - Eps - 1) \div Unit))

\* C2: collision containment, as the claim states it and read in the code's
\* favour: once the game runs, the player's bounding box overlaps no cell
\* holding a solid tile by more than the tolerance.
C2_Contained ==
  pc = "run" =>
    \A c \in boxCells(player.x, player.y) : ~tileSolid(getTile(chunks, SEED, c[1], c[2]))

\* C10: jump gating.  Only a gameStep changes the player.  A gameStep applies
\* the jump impulse only if grounded held when it started, and only after a
\* gameStep, later than the previous impulse, in which a downward collision
\* set grounded; and a gameStep that starts airborne leaves the player as it
\* would with the jump keys released.
C10_JumpGated ==
  [][player' # player =>
       /\ stepped'.jumped => player.grounded /\ stepped.landedSince
       /\ ~player.grounded =>
            /\ ~stepped'.jumped
            /\ player' = moved(player, integrate(player, keys \ {"w", " "}, chunks, SEED))]_vars

\* a gameStep has applied the impulse, and the key is still held in the air
C10_Witness == stepped.jumped /\ "w" \in keys /\ ~player.grounded /\ player.vy < 0

\* the 8 tile values
Tiles == {TILES.AIR, TILES.GRASS, TILES.DIRT, TILES.STONE, TILES.COAL, TILES.COPPER,
          TILES.WOOD, TILES.LEAVES}

\* a grid of CHUNK_SIZE rows of CHUNK_SIZE tile values
closedGrid(t) ==
  /\ DOMAIN t = 1..CHUNK_SIZE
  /\ \A r \in 1..CHUNK_SIZE :
       DOMAIN t[r] = 1..CHUNK_SIZE /\ \A c \in 1..CHUNK_SIZE : t[r][c] \in Tiles

\* every grid of the table of generated grids is closed
PreparedClosed == \A f \in Prepared : closedGrid(PreparedGrid[f])

\* C11: tile closure.  Every resident chunk is a CHUNK_SIZE x CHUNK_SIZE grid
\* of the 8 tile values: the grid generateChunk returned for it is one, and
\* every write made to it since puts one of the 8 values at a cell of the grid.
C11_TileClosure ==
  /\ Cardinality(Tiles) = 8
  /\ PreparedClosed
  /\ \A k \in DOMAIN chunks :
       /\ chunks[k].tiles.from \in Prepared
       /\ \A c \in DOMAIN chunks[k].tiles.set :
            /\ c \in (0..(CHUNK_SIZE - 1)) \X (0..(CHUNK_SIZE - 1))
            /\ chunks[k].tiles.set[c] \in Tiles
            /\ tileIn(chunks[k].tiles, c[1], c[2]) \in Tiles

\* a chunk generated outside the window of init is resident, a chunk has been
\* written and the player has moved
C11_Witness ==
  /\ Cardinality(DOMAIN chunks) > 25
  /\ player.y # SpawnY
  /\ \E k \in DOMAIN chunks : DOMAIN chunks[k].tiles.set # {}

\* the world cell of the local cell (lx, ly) of the chunk whose generation
\* is followed
worldCell(lx, ly) == <<gen.cx * CHUNK_SIZE + lx, gen.cy * CHUNK_SIZE + ly>>

\* C12: totality.  Every stage of generateChunk evaluates tiles[y][x] only
\* for 0 <= x, y < CHUNK_SIZE and leaves a full grid; and getTile, on a store
\* where the chunk is not resident, returns for the corner cells of the chunk,
\* at negative world coordinates too, the tile the finished grid holds there.
C12_Total ==
  /\ gen.indices \subseteq allIndices
  /\ gen.stage # "idle" => closedGrid(gen.g.tiles)
  /\ gen.stage = "trees" =>
       \A l \in {0, CHUNK_SIZE - 1} \X {0, CHUNK_SIZE - 1} :
         /\ keyOf(chunkOfCell(worldCell(l[1], l[2]))) \notin DOMAIN chunks
         /\ chunkOfCell(worldCell(l[1], l[2])) = <<gen.cx, gen.cy>>
         /\ getTile(chunks, SEED, worldCell(l[1], l[2])[1], worldCell(l[1], l[2])[2])
              = TileAt(gen.g.tiles, l[1], l[2])

\* the caves of a chunk at negative coordinates reach an edge column
C12_Witness ==
  /\ gen.stage = "caves" /\ gen.cx < 0 /\ gen.cy < 0
  /\ \E p \in gen.indices : p[1] = 0 \/ p[1] = CHUNK_SIZE - 1

\* C13: the save payload.  A step that sends a request sends the seed and,
\* under the key "cx,cy" of its pair, the tiles of each resident chunk whose
\* modified flag is true, and of no other chunk; and while no resident chunk
\* is modified, no step sends a request or stores anything locally.
C13_SavePayload ==
  [][/\ requests' # requests /\ requests \subseteq requests' =>
          \A r \in requests' \ requests :
            /\ r.seed = SEED
            /\ DOMAIN r.chunks = {k \in DOMAIN chunks : chunks[k].modified}
            /\ DOMAIN r.chunks # {}
            /\ \A k \in DOMAIN r.chunks :
                 /\ r.chunks[k] = chunks[k].tiles
                 /\ k = ck(coordsOf(chunks[k])[1], coordsOf(chunks[k])[2])
     /\ (\A k \in DOMAIN chunks : ~chunks[k].modified) =>
          requests' = requests /\ localWorld' = localWorld]_vars

\* a request is in flight that holds a modified chunk and leaves out the
\* unmodified ones
C13_Witness ==
  \E r \in requests :
    /\ DOMAIN r.chunks # {}
    /\ DOMAIN r.chunks # DOMAIN chunks
    /\ \A k \in DOMAIN r.chunks : chunks[k].modified

\* C14: the save fallback, as the claim states it: a step that stores to
\* local storage stores the payload of a request that was in flight, as it
\* was sent, and leaves the chunks alone; a step that takes a request out of
\* flight without storing leaves local storage and the chunks alone.
C14_SaveFallback ==
  [][/\ localWorld' # localWorld =>
          /\ \E r \in requests \ requests' : localWorld' = <<r>>
          /\ chunks' = chunks
     /\ requests' # requests /\ requests' \subseteq requests /\ localWorld' = localWorld =>
          chunks' = chunks]_vars

\* the player's fields as a gameStep holds them when it reaches the vertical
\* pass (lines 362-363)
beforeVertical == horizontalPass(input(player, keys), chunks, SEED)

\* the tentative vertical move of a gameStep collides while the player rises
upwardCollision ==
  /\ beforeVertical.vy < 0
  /\ rectCollidesWithTiles(chunks, SEED, beforeVertical.x,
                           beforeVertical.y + 5 * beforeVertical.vy, Pw, Ph)

\* C15: the upward collision, as the claim states it: a gameStep whose
\* tentative vertical move collides while vy < 0 sets vy to 0, leaves
\* grounded false and leaves y unchanged.
C15_UpwardCollision ==
  [][player' # player /\ upwardCollision =>
       /\ player'.vy = 0
       /\ ~player'.grounded
       /\ player'.y = player.y]_vars

\* the cells directly beneath the box of a player at (x, y) whose bottom edge
\* is on a tile boundary, the 0.01 of rectCollidesWithTiles to the left included
cellsBeneath(x, y) == (((x - Eps) \div Unit)..((x + Pw - 1) \div Unit)) \X {(y + Ph) \div Unit}

\* C16: landing, as the claim states it: whenever grounded is true, vy is 0,
\* the bottom edge y + h is on a tile boundary and a solid tile lies directly
\* beneath the box.
C16_Landing ==
  player.grounded =>
    /\ player.vy = 0
    /\ (player.y + Ph) % Unit = 0
    /\ \E c \in cellsBeneath(player.x, player.y) :
         tileSolid(getTile(chunks, SEED, c[1], c[2]))

\* the tentative x of a gameStep (line 347)
tentativeX == player.x + 5 * input(player, keys).vx

\* the tentative horizontal move of a gameStep collides (line 351)
horizontalCollision == rectCollidesWithTiles(chunks, SEED, tentativeX, player.y, Pw, Ph)

\* the distance from x to nx in the direction of the tentative move
travelled(x, nx) == IF tentativeX >= player.x THEN nx - x ELSE x - nx

\* C17: horizontal resolution.  A gameStep whose tentative horizontal move
\* collides advances x by a whole number of increments of 0.01, at most
\* |vx * dt| / 0.01 of them, to a position between the old and the tentative
\* x, never past the tentative x; it leaves vx = 0; and if the box did not
\* collide at the old x, it does not collide at the final x.
C17_HorizontalResolution ==
  [][player' # player /\ horizontalCollision =>
       /\ travelled(player.x, player'.x) % Eps = 0
       /\ travelled(player.x, player'.x) >= 0
       /\ travelled(player.x, player'.x) <= (travelled(player.x, tentativeX) \div Eps) * Eps
       /\ player'.vx = 0
       /\ ~rectCollidesWithTiles(chunks, SEED, player.x, player.y, Pw, Ph) =>
            ~rectCollidesWithTiles(chunks, SEED, player'.x, player.y, Pw, Ph)]_vars

\* a gameStep has stopped the player part of the way to the tentative x
C17_Witness ==
  /\ "a" \in keys /\ player.vx = 0
  /\ (SpawnX - player.x) % (5 * speed) # 0

\* the sample values at and next to every multiple of 2^-16: the numerators
\* <<hi, 0>> and <<hi, 2^16 - 1>> of the 32-bit samples mulberry32 returns
OreSamples == (0..(H16 - 1)) \X {0, H16 - 1}

\* the outcomes the ore pass has over the sample values
oreOutcomes == {oreTile(u) : u \in OreSamples}

\* the ore pass from grid g to grid h: every STONE tile of g has become what
\* the claim says of its own sample, the samples being drawn column by
\* column (lines 131-133); before[x + 1] counts the STONE tiles left of x
oreLaw(g, h, before) ==
  \A x \in 0..(CHUNK_SIZE - 1), y \in 0..(CHUNK_SIZE - 1) :
    TileAt(h.tiles, x, y) =
      IF TileAt(g.tiles, x, y) # TILES.STONE THEN TileAt(g.tiles, x, y)
      ELSE IF FloorMul(100, rngCall(g.a0, g.n + before[x + 1] + stonesAbove(g.tiles, x, y))) < 2
           THEN TILES.COAL
      ELSE IF FloorMul(1000, rngCall(g.a0, g.n + before[x + 1] + stonesAbove(g.tiles, x, y))) < 7
           THEN TILES.COPPER
      ELSE TILES.STONE

\* C18: ore scatter.  The ore pass draws one sample per tile still STONE and
\* turns the tile into COAL below 0.02, otherwise into COPPER below 0.007,
\* otherwise leaves it STONE; and both COAL and COPPER are outcomes of some
\* sample value.
C18_OreScatter ==
  [][gen.stage = "caves" /\ gen'.stage = "ores" =>
       /\ oreLaw(gen.g, gen'.g, AsRow([c \in 1..CHUNK_SIZE |-> stonesLeft(gen.g.tiles, c - 1)]))
       /\ gen'.g.n = gen.g.n + stonesLeft(gen.g.tiles, CHUNK_SIZE)
       /\ {TILES.COAL, TILES.COPPER} \subseteq oreOutcomes]_vars

\* the surface rows of the chunk under generation
surfaceOf == surfaceRows(gen.cx, gen.cy, gen.g.a0)

\* the grid under generation holds, in every column x, AIR above the surface
\* row surf[x + 1], GRASS on it, DIRT in the next `dirt` rows and STONE below
layered(surf, dirt) ==
  \A x \in 0..(CHUNK_SIZE - 1), y \in 0..(CHUNK_SIZE - 1) :
    TileAt(gen.g.tiles, x, y) =
      IF y < surf[x + 1] THEN TILES.AIR
      ELSE IF y = surf[x + 1] THEN TILES.GRASS
      ELSE IF y <= surf[x + 1] + dirt THEN TILES.DIRT
      ELSE TILES.STONE

\* C19: heightmap layering.  After the heightmap pass every column holds AIR
\* above its surface row, GRASS on it, DIRT in the next 3 rows (surface + 1
\* to surface + 3) and STONE in all rows below those.
C19_Layering == gen.stage = "heightmap" => layered(surfaceOf, 3)

\* C19 as stated: the next 4 rows below the surface row are DIRT
C19_FourDirtRows == gen.stage = "heightmap" => layered(surfaceOf, 4)

\* a column with DIRT three rows below the surface row and STONE four rows
\* below it
dirtThenStone(surf) ==
  \E x \in 0..(CHUNK_SIZE - 1) :
    /\ TileAt(gen.g.tiles, x, surf[x + 1] + 3) = TILES.DIRT
    /\ TileAt(gen.g.tiles, x, surf[x + 1] + 4) = TILES.STONE

\* the heightmap pass has made such a column
C19_Witness == gen.stage = "heightmap" /\ dirtThenStone(surfaceOf)

\* the grid of the chunk under generation as the cave pass leaves it
carvedOf == caves(heightmap(gen.cx, gen.cy, gen.g.a0)).tiles

\* every surface row of surf lies in [4, CHUNK_SIZE - 6]
surfaceBounded(surf) ==
  \A x \in 0..(CHUNK_SIZE - 1) : 4 <= surf[x + 1] /\ surf[x + 1] <= CHUNK_SIZE - 6

\* in the grid under generation a tile at row >= surface + 4 is STONE, or AIR
\* where the cave pass left AIR, or COAL or COPPER where the cave pass left
\* STONE; and no tile at a row < surface + 4 is STONE
stoneBelow(surf, carved) ==
  \A x \in 0..(CHUNK_SIZE - 1), y \in 0..(CHUNK_SIZE - 1) :
    IF y >= surf[x + 1] + 4
    THEN \/ TileAt(gen.g.tiles, x, y) = TILES.STONE
         \/ TileAt(gen.g.tiles, x, y) = TILES.AIR /\ TileAt(carved, x, y) = TILES.AIR
         \/ TileAt(gen.g.tiles, x, y) \in {TILES.COAL, TILES.COPPER}
              /\ TileAt(carved, x, y) = TILES.STONE
    ELSE TileAt(gen.g.tiles, x, y) # TILES.STONE

\* C20: surface bounds.  For every chunk the surface row of every column lies
\* in [4, CHUNK_SIZE - 6] = [4, 26]; in the finished chunk every tile at row
\* >= surface + 4 is STONE unless a cave carved it to AIR or the ore pass
\* made it COAL or COPPER, and no STONE tile lies above row surface + 4.
C20_SurfaceBounds ==
  /\ CHUNK_SIZE - 6 = 26
  /\ gen.stage # "idle" => surfaceBounded(surfaceOf)
  /\ gen.stage = "trees" => stoneBelow(surfaceOf, carvedOf)

\* a tile at row >= surface + 4 of column x holds tile t
deepTile(surf, t) ==
  \E x \in 0..(CHUNK_SIZE - 1), y \in 0..(CHUNK_SIZE - 1) :
    y >= surf[x + 1] + 4 /\ TileAt(gen.g.tiles, x, y) = t

\* a finished chunk with STONE, carved AIR and COAL below surface + 4
C20_Witness ==
  /\ gen.stage = "trees"
  /\ deepTile(surfaceOf, TILES.STONE)
  /\ deepTile(surfaceOf, TILES.AIR)
  /\ deepTile(surfaceOf, TILES.COAL)

\* C21: mining writes only solid tiles.  A step of tickMining writes a tile
\* only when the tile it read is solid; a step that reads LEAVES adds nothing
\* to the inventory and leaves the tile, the modified flag of every chunk and
\* the save timer as they were.
C21_MineLeaves ==
  [][\A tile \in Tiles :
       minesStep(tile) =>
         /\ written' # written => tileSolid(tile)
         /\ tile = TILES.LEAVES =>
              /\ player'.inventory = player.inventory
              /\ getTile(chunks', SEED, underMouse(player, canvas, mouse)[1],
                         underMouse(player, canvas, mouse)[2]) = TILES.LEAVES
              /\ \A k \in DOMAIN chunks' :
                   chunks'[k].modified = (k \in DOMAIN chunks /\ chunks[k].modified)
              /\ saveTimeout' = saveTimeout]_vars

\* a step in which a pending save timer fires
fires == Cardinality(timing'.timers) < Cardinality(timing.timers)

streamedOnce == ensured(chunks, SEED, streamed(player))

\* C23: streaming is idempotent.  In every state, streaming leaves every
\* resident chunk (tiles and modified flag) as it is, and streaming a second
\* time with the player where it is leaves the Map the first call made as it
\* is; and no step of init or gameStep, which stream, changes a resident
\* chunk.
C23_StreamIdempotent ==
  /\ [](/\ \A k \in DOMAIN chunks : streamedOnce[k] = chunks[k]
        /\ ensured(streamedOnce, SEED, streamed(player)) = streamedOnce)
  /\ [][(pc' # pc \/ ticks' # ticks) => \A k \in DOMAIN chunks : chunks'[k] = chunks[k]]_vars

\* a gameStep has streamed over a chunk of the window that setTile has written
C23_Witness ==
  /\ ticks > 0
  /\ \E c \in streamed(player) :
       keyOf(c) \in DOMAIN chunks /\ chunks[keyOf(c)].modified

\* the keys of the chunks holding a cell that setTile has targeted
writtenKeys == {keyOf(chunkOfCell(c)) : c \in DOMAIN written}

\* C24: dirty-flag accuracy.  In every state a resident chunk's modified flag
\* is true exactly when setTile has targeted a cell of the chunk; and a step
\* in which setTile is not called (generation, getTile, ensureChunk,
\* streaming, rendering, collision queries, saving) leaves the flag of every
\* resident chunk as it is and gives every chunk it generates a false flag.
C24_DirtyFlag ==
  /\ [](\A k \in DOMAIN chunks : chunks[k].modified <=> k \in writtenKeys)
  /\ [][written' = written =>
          \A k \in DOMAIN chunks' :
            chunks'[k].modified = (k \in DOMAIN chunks /\ chunks[k].modified)]_vars

\* a resident chunk that setTile has written, next to one it has not, after
\* a gameStep and a save
C24_Witness ==
  /\ ticks > 0 /\ requests # {}
  /\ \E k \in DOMAIN chunks : chunks[k].modified
  /\ \E k \in DOMAIN chunks : ~chunks[k].modified
  /\ mining.tile = TILES.AIR

\* the number of items of the resources mining gives
gained(inv) ==
  LET count(i) == IF i \in DOMAIN inv THEN inv[i] ELSE 0
  IN  count("wood") + count("coal") + count("copper") + count("dirt") + count("stone")

\* the tile generateChunk put at the world cell c
originally(c) == getTile([k \in {} |-> 0], SEED, c[1], c[2])

\* C25: no double credit.  Whatever the order in which the two tickMining
\* timers, the gameSteps and the other events fire, the number of items
\* mining has added to the inventory is the number of cells that held a solid
\* tile and that setTile has turned to AIR; no step adds more than one item,
\* and a step that adds one turns the solid tile under the pointer to AIR.
C25_NoDoubleCredit ==
  /\ [](gained(player.inventory)
          = Cardinality({c \in DOMAIN written : tileSolid(originally(c))}))
  /\ [][gained(player'.inventory) # gained(player.inventory) =>
          /\ gained(player'.inventory) = gained(player.inventory) + 1
          /\ tileSolid(getTile(chunks, SEED, underMouse(player, canvas, mouse)[1],
                               underMouse(player, canvas, mouse)[2]))
          /\ getTile(chunks', SEED, underMouse(player, canvas, mouse)[1],
                     underMouse(player, canvas, mouse)[2]) = TILES.AIR]_vars

\* tickMining has fired on a solid tile and then, the button still down, on
\* the same cell again, with a gameStep in between: one item, one cell
C25_Witness ==
  /\ gained(player.inventory) = 1
  /\ Cardinality(DOMAIN written) = 1
  /\ mining.tile = TILES.AIR /\ <<mining.wx, mining.wy>> \in DOMAIN written
  /\ tileSolid(originally(<<mining.wx, mining.wy>>))
  /\ ticks > 0
====
